---------------------------- MODULE Spec2Model ----------------------------
(***************************************************************************)
(* Model of the peekit-enrichment pipeline (src/enrichment).               *)
(*                                                                         *)
(* Python values are tagged records, so that values of different native    *)
(* types can sit in one dict: [t |-> "null"], [t |-> "int", v |-> 3],      *)
(* [t |-> "str", v |-> "a"], [t |-> "float", v |-> x] with x in            *)
(* ten-thousandths, [t |-> "bool", v |-> TRUE], [t |-> "list", v |-> seq], *)
(* [t |-> "ts", v |-> hours] for a datetime and [t |-> "date", v |-> day]. *)
(* A dict is a function from its keys (strings) to tagged values.          *)
(***************************************************************************)
EXTENDS Integers, Sequences, FiniteSets, TLC

VARIABLES
    \* ---- the query engine and its stores
    enrichments,      \* the results table: a set of rows (dicts)
    queries,          \* merge statements started and not yet ended by the engine
    engine_failed,    \* merge statements the engine ended FAILED or CANCELLED
    ddl,              \* engine state of the provisioning statement waited on
    clock,            \* wall clock, in hours
    \* ---- the process (one per run)
    run,              \* index of the current run (process); 0 before the first
    pc,               \* position of the process in main() and run()
    env,              \* the process environment read by __init__ and main
    modules_enabled,  \* EnrichmentPipeline.modules_enabled
    pidx,             \* index in ProviderOrder of the provider run() is at
    enriched_records, \* the list run() built for the current provider
    total_enriched,   \* run()'s counter
    elapsed,          \* _wait_for_query: time.time() - start_time, in seconds
    polls,            \* _wait_for_query: iterations of the poll loop so far
    exit_status,      \* exit status of each process that has ended
    \* ---- history, for the properties
    faults,           \* environment failures so far
    hist,             \* per run: what run() did for provisioning and providers
    enrich_count,     \* per source record: calls of _enrich_record
    lost,             \* source records whose merge did not take effect
    writer_failed,    \* records whose merge the writer handled as failed
    \* ---- single calls, for the specifications of one function
    ecall,            \* one call of _enrich_record
    wcall,            \* one call of merge_enriched_records_batch
    call              \* one call of another function (its name in call.fn)

vars == <<enrichments, queries, engine_failed, ddl, clock, run,
          pc, env, modules_enabled, pidx, enriched_records, total_enriched,
          elapsed, polls, exit_status, faults, hist, enrich_count, lost,
          writer_failed, ecall, wcall, call>>

----------------------------------------------------------------------------
(* Python values *)

Null == [t |-> "null"]

VInt(n) == [t |-> "int", v |-> n]

VStr(s) == [t |-> "str", v |-> s]

VFloat(x) == [t |-> "float", v |-> x]

VBool(b) == [t |-> "bool", v |-> b]

VList(q) == [t |-> "list", v |-> q]

VTs(h) == [t |-> "ts", v |-> h]

VDate(d) == [t |-> "date", v |-> d]

\* Python truthiness: None, 0, 0.0, '', [] and False are falsy.
Truthy(x) ==
    CASE x.t = "null" -> FALSE
      [] x.t = "int" -> x.v # 0
      [] x.t = "float" -> x.v # 0
      [] x.t = "str" -> x.v # ""
      [] x.t = "bool" -> x.v
      [] x.t = "list" -> x.v # <<>>
      [] OTHER -> TRUE

\* x or d
Or(x, d) == IF Truthy(x) THEN x ELSE d

\* dict.get(k): None when the key is absent
Get(d, k) == IF k \in DOMAIN d THEN d[k] ELSE Null

\* dict.get(k, dflt)
GetOr(d, k, dflt) == IF k \in DOMAIN d THEN d[k] ELSE dflt

\* dict.update(u): u's keys win
Update(d, u) == u @@ d

\* d[to] = d.pop(from, dflt)
PopInto(d, from, to, dflt) ==
    LET val == GetOr(d, from, dflt)
        rest == [k \in (DOMAIN d) \ {from} |-> d[k]]
    IN  (to :> val) @@ rest

\* Fault injection: repr(x) in place of str(x), a string keeping its quotes.
PyStrRepr(x) ==
    CASE x.t = "null" -> "None"
      [] x.t = "int" -> ToString(x.v)
      [] x.t = "str" -> "'" \o x.v \o "'"
      [] OTHER -> "<object>"

\* str(x) of Python
PyStr(x) ==
    CASE x.t = "null" -> "None"
      [] x.t = "int" -> ToString(x.v)
      [] x.t = "str" -> x.v
      [] OTHER -> "<object>"

\* CAST(x AS VARCHAR) of the query engine; NULL stays NULL
CastVarchar(x) ==
    CASE x.t = "null" -> Null
      [] x.t = "int" -> VStr(ToString(x.v))
      [] OTHER -> x

RoundDiv(a, b) == (2 * a + b) \div (2 * b)

\* a = b of the query engine: never true when an operand is NULL
SqlEq(a, b) == a.t # "null" /\ b.t # "null" /\ a.t = b.t /\ a.v = b.v

----------------------------------------------------------------------------
(* providers.py *)

RedditText == "COALESCE(title || ' ' || caption, title, caption)"

PROVIDERS ==
    [ x_tweets |->
        [ table |-> "x_tweets", id_column |-> "tweet_id",
          text_column |-> "tweet_text", author_column |-> VStr("author"),
          likes_column |-> VStr("likes"), shares_column |-> VStr("retweets"),
          comments_column |-> VStr("replies"), views_column |-> VStr("views"),
          posted_at_column |-> VStr("posted_at"),
          keyword_column |-> VStr("keyword"), region_column |-> VStr("region"),
          url_column |-> Null ],
      reddit_posts |->
        [ table |-> "reddit_posts", id_column |-> "post_id",
          text_column |-> RedditText, author_column |-> VStr("author"),
          likes_column |-> VStr("upvotes"), shares_column |-> Null,
          comments_column |-> VStr("comments"), views_column |-> Null,
          posted_at_column |-> VStr("posted_at"),
          keyword_column |-> VStr("keyword"), region_column |-> Null,
          url_column |-> Null ] ]

\* The order in which run() walks self.providers: the providers selected by
\* ENRICHMENT_PROVIDERS = 'x_tweets,reddit_posts', in the order of PROVIDERS.
ProviderOrder == <<"x_tweets", "reddit_posts">>

\* _get(col) of normalize_record
NormGet(raw, col) == IF col.t = "null" THEN Null ELSE Get(raw, col.v)

\* Fault injection: the text read from the key config.text_column.
TextOfColumn(raw, config) == GetOr(raw, config.text_column, VStr(""))

\* raw.get('source_text', ''): the query aliases the text expression
TextOf(raw, config) == GetOr(raw, "source_text", VStr(""))

normalize_record(raw, config) ==
    [ source_table |-> VStr(config.table),
      source_id    |-> VStr(PyStr(GetOr(raw, config.id_column, VStr("")))),
      text         |-> Or(TextOf(raw, config), VStr("")),
      author       |-> Or(NormGet(raw, config.author_column), VStr("")),
      likes        |-> Or(NormGet(raw, config.likes_column), VInt(0)),
      retweets     |-> Or(NormGet(raw, config.shares_column), VInt(0)),
      replies      |-> Or(NormGet(raw, config.comments_column), VInt(0)),
      views        |-> Or(NormGet(raw, config.views_column), VInt(0)),
      posted_at    |-> NormGet(raw, config.posted_at_column),
      keyword      |-> Or(NormGet(raw, config.keyword_column), VStr("")),
      region       |-> Or(NormGet(raw, config.region_column), VStr("")),
      scraped_at   |-> Get(raw, "scraped_at"),
      source_url   |-> Or(NormGet(raw, config.url_column), VStr("")) ]

----------------------------------------------------------------------------
(* modules/engagement_scorer.py *)

\* min(100.0, math.log10(score + 1) * 25) in ten-thousandths, truncated, for
\* a score given in hundredths; 0.0 for a score <= 0.  The logarithm is
\* tabulated, with the values math.log10 gives, on the scores this model
\* produces; from 9999.0 on the cap of 100 applies.  Truncation keeps the
\* comparisons with the thresholds of the tiers exact.
_calculate_percentile_score(s100) ==
    CASE s100 <= 0 -> 0
      [] s100 = 100 -> 75257
      [] s100 = 151 -> 99918
      [] s100 = 152 -> 100350
      [] s100 = 200 -> 119280
      [] s100 = 300 -> 150514
      [] s100 = 500 -> 194537
      [] s100 = 899 -> 249891
      [] s100 = 900 -> 250000
      [] s100 = 1400 -> 294022
      [] s100 = 3900 -> 400514
      [] s100 = 9899 -> 499989
      [] s100 = 9900 -> 500000
      [] s100 = 99899 -> 749998
      [] s100 = 99900 -> 750000
      [] s100 = 398007 -> 899999
      [] s100 = 398008 -> 900000
      [] s100 >= 999900 -> 1000000

\* Fault injection: exclusive lower bounds.
TierExclusive(percentile) ==
    IF percentile > 900000 THEN "Viral"
    ELSE IF percentile > 750000 THEN "High"
    ELSE IF percentile > 500000 THEN "Above Average"
    ELSE IF percentile > 250000 THEN "Average"
    ELSE IF percentile > 100000 THEN "Below Average"
    ELSE "Low"

\* Fault injection: "Above Average" from 40 on.
TierAboveFrom40(percentile) ==
    IF percentile >= 900000 THEN "Viral"
    ELSE IF percentile >= 750000 THEN "High"
    ELSE IF percentile >= 400000 THEN "Above Average"
    ELSE IF percentile >= 250000 THEN "Average"
    ELSE IF percentile >= 100000 THEN "Below Average"
    ELSE "Low"

_get_engagement_tier(percentile) ==
    IF percentile >= 900000 THEN "Viral"
    ELSE IF percentile >= 750000 THEN "High"
    ELSE IF percentile >= 500000 THEN "Above Average"
    ELSE IF percentile >= 250000 THEN "Average"
    ELSE IF percentile >= 100000 THEN "Below Average"
    ELSE "Low"

\* score per hour, in hundredths; now and posted_at are in hours
_calculate_time_adjusted_score(s100, posted_at, now) ==
    IF ~Truthy(posted_at) THEN 0
    ELSE IF posted_at.t # "ts" THEN 0
    ELSE IF now - posted_at.v <= 0 THEN 0
    ELSE RoundDiv(s100, now - posted_at.v)

\* Fault injection: 1.0 where the denominator is not positive.
RatioOrOne(num, den) == IF den > 0 THEN RoundDiv(num * 10000, den) ELSE 10000

\* round((num / den) if den > 0 else 0.0, 4), in ten-thousandths
Ratio(num, den) == IF den > 0 THEN RoundDiv(num * 10000, den) ELSE 0

score(tweet_data, now) ==
    LET likes    == Or(GetOr(tweet_data, "likes", VInt(0)), VInt(0)).v
        retweets == Or(GetOr(tweet_data, "retweets", VInt(0)), VInt(0)).v
        replies  == Or(GetOr(tweet_data, "replies", VInt(0)), VInt(0)).v
        views    == Or(GetOr(tweet_data, "views", VInt(0)), VInt(0)).v
        posted_at == Get(tweet_data, "posted_at")
        s100 == likes * 100 + retweets * 300 + replies * 200 + views
        total == likes + retweets + replies
        rate == Ratio(total, views)
        viral == Ratio(retweets, total)
        qual == Ratio(replies + retweets, likes)
        tadj == _calculate_time_adjusted_score(s100, posted_at, now)
        pct == _calculate_percentile_score(s100)
    IN  [ engagement_score    |-> VFloat(s100 * 100),
          engagement_rate     |-> VFloat(rate),
          virality_score      |-> VFloat(viral),
          interaction_quality |-> VFloat(qual),
          time_adjusted_score |-> VFloat(tadj * 100),
          percentile_score    |-> VFloat(RoundDiv(pct, 100) * 100),
          engagement_tier     |-> VStr(_get_engagement_tier(pct)) ]

----------------------------------------------------------------------------
(* The four stages backed by the structured-extraction service *)

Stages == <<"sentiment", "entity", "topic", "engagement", "moderation">>

StageSet == {Stages[i] : i \in DOMAIN Stages}

ZaiStages == {"sentiment", "entity", "topic", "moderation"}

\* What the service answers for a stage when the call succeeds (the JSON
\* object parsed by _call_zai_api).
ServiceAnswer(stage) ==
    CASE stage = "sentiment" ->
           [ sentiment_label |-> VStr("positive"),
             sentiment_score |-> VFloat(9000),
             sentiment_emotions |-> VList(<<VStr("joy")>>),
             sentiment_topics |-> VList(<<VStr("launch")>>) ]
      [] stage = "entity" ->
           [ people |-> VList(<<>>), organizations |-> VList(<<VStr("acme")>>),
             locations |-> VList(<<>>), products |-> VList(<<>>),
             hashtags |-> VList(<<VStr("x")>>), mentions |-> VList(<<>>) ]
      [] stage = "topic" ->
           [ primary_category |-> VStr("Technology"),
             sub_categories |-> VList(<<VStr("ai")>>),
             industry |-> VStr("Software"), keywords |-> VList(<<VStr("k")>>),
             is_commercial |-> VBool(TRUE), is_news |-> VBool(FALSE) ]
      [] stage = "moderation" ->
           [ is_safe |-> VBool(FALSE), risk_level |-> VStr("low"),
             flags |-> VList(<<VStr("spam")>>), content_warnings |-> VList(<<>>),
             recommended_action |-> VStr("flag"),
             confidence_score |-> VFloat(8000) ]

\* SentimentAnalyzer._empty_result, EntityExtractor._empty_result,
\* TopicClassifier._empty_result, ContentModerator._safe_result
_empty_result(stage) ==
    CASE stage = "sentiment" ->
           [ sentiment_label |-> VStr("neutral"), sentiment_score |-> VFloat(0),
             sentiment_emotions |-> VList(<<>>),
             sentiment_topics |-> VList(<<>>) ]
      [] stage = "entity" ->
           [ people |-> VList(<<>>), organizations |-> VList(<<>>),
             locations |-> VList(<<>>), products |-> VList(<<>>),
             hashtags |-> VList(<<>>), mentions |-> VList(<<>>) ]
      [] stage = "topic" ->
           [ primary_category |-> VStr("Other"), sub_categories |-> VList(<<>>),
             industry |-> VStr("Unknown"), keywords |-> VList(<<>>),
             is_commercial |-> VBool(FALSE), is_news |-> VBool(FALSE) ]
      [] stage = "moderation" ->
           [ is_safe |-> VBool(TRUE), risk_level |-> VStr("safe"),
             flags |-> VList(<<>>), content_warnings |-> VList(<<>>),
             recommended_action |-> VStr("none"),
             confidence_score |-> VFloat(10000) ]

\* str.strip() leaves nothing: '' or blanks only
IsBlank(s) == s \in {"", " "}

\* The declared field a response of the service may lack.
LackedField(stage) ==
    CASE stage = "sentiment" -> "sentiment_score"
      [] stage = "entity" -> "mentions"
      [] stage = "topic" -> "industry"
      [] stage = "moderation" -> "risk_level"

\* The undeclared key a response of the service may carry, by outcome.
ExtraKey(outcome) ==
    CASE outcome = "extra_note" -> "note"
      [] outcome = "extra_text" -> "text"
      [] outcome = "extra_source_id" -> "source_id"
      [] outcome = "extra_enriched_at" -> "enriched_at"

ExtraOutcomes ==
    {"extra_note", "extra_text", "extra_source_id", "extra_enriched_at"}

\* Outcomes in which the service answers with a JSON object that is not of
\* the shape the stage declares.
MalformedOutcomes == {"lacks"} \cup ExtraOutcomes

\* json.loads(content): the object the service sent.
ServiceResponse(stage, outcome) ==
    LET full == ServiceAnswer(stage)
    IN  IF outcome = "lacks"
        THEN [k \in (DOMAIN full) \ {LackedField(stage)} |-> full[k]]
        ELSE IF outcome \in ExtraOutcomes
        THEN Update(full, ExtraKey(outcome) :> VStr("injected"))
        ELSE full

\* _call_zai_api returns the parsed object as it is, and so does its caller.
Parsed(stage, response) == response

\* analyze / extract / classify / moderate: the result of the stage's call
\* as its caller sees it.  outcome is what the service does when called:
\* "ok", "raise", or one of MalformedOutcomes.  [raised |-> TRUE] is an
\* exception leaving the call.
StageCall(stage, text, outcome) ==
    IF (~Truthy(text)) \/ IsBlank(text.v)
    THEN [raised |-> FALSE, value |-> _empty_result(stage)]
    ELSE IF outcome = "raise"
         THEN [raised |-> FALSE, value |-> _empty_result(stage)]
         ELSE [raised |-> FALSE,
               value |-> Parsed(stage, ServiceResponse(stage, outcome))]

----------------------------------------------------------------------------
(* main.py: EnrichmentPipeline *)

\* The default bundles of the except branches of _enrich_record.
FallbackBundle(stage) ==
    CASE stage = "sentiment" ->
           [ sentiment_label |-> VStr("unknown"), sentiment_score |-> VFloat(0),
             sentiment_emotions |-> VList(<<>>),
             sentiment_topics |-> VList(<<>>) ]
      [] stage = "entity" ->
           [ people |-> VList(<<>>), organizations |-> VList(<<>>),
             locations |-> VList(<<>>), products |-> VList(<<>>),
             hashtags |-> VList(<<>>), mentions |-> VList(<<>>) ]
      [] stage = "topic" ->
           [ primary_category |-> VStr("Other"), sub_categories |-> VList(<<>>),
             industry |-> VStr("Unknown"), keywords |-> VList(<<>>),
             is_commercial |-> VBool(FALSE), is_news |-> VBool(FALSE) ]
      [] stage = "engagement" ->
           [ engagement_score |-> VFloat(0), engagement_rate |-> VFloat(0),
             virality_score |-> VFloat(0), interaction_quality |-> VFloat(0),
             time_adjusted_score |-> VFloat(0), percentile_score |-> VFloat(0),
             engagement_tier |-> VStr("Low") ]
      [] stage = "moderation" ->
           [ is_safe |-> VBool(TRUE), risk_level |-> VStr("safe"),
             flags |-> VList(<<>>), content_warnings |-> VList(<<>>),
             recommended_action |-> VStr("none"),
             confidence_score |-> VFloat(10000) ]

StageFields(stage) == DOMAIN FallbackBundle(stage)

MetaFields == {"enriched_at", "enrichment_version", "date"}

HoursPerDay == 24

\* datetime.date() of a clock reading in hours
DateOf(h) == h \div HoursPerDay

\* __init__: a stage is enabled when its toggle is 'true' and its module's
\* constructor did not raise.  The four service-backed constructors raise
\* ValueError when ZAI_API_KEY is not set; EngagementScorer() never raises.
InitModules(e) ==
    [ s \in StageSet |->
        e.enable[s] /\ (s \in ZaiStages => e.api_key) ]

\* One stage block of _enrich_record: if enabled, try the call and merge
\* its result, on an exception merge the fallback bundle.
RunStage(enriched, stage, enabled, res) ==
    IF ~enabled[stage] THEN enriched
    ELSE IF res.raised THEN Update(enriched, FallbackBundle(stage))
    ELSE Update(enriched, res.value)

\* _enrich_record(record).  outc gives what the service does at each call;
\* t1, t2 and t3 are the clock readings of the two datetime.now() calls of
\* _enrich_record and of the one of the engagement scorer.
_enrich_record(record, enabled, outc, t1, t2, t3) ==
    LET text == GetOr(record, "text", VStr(""))
        e0 == Update(record,
                     [ enriched_at |-> VTs(t1),
                       enrichment_version |-> VStr("1.0.0"),
                       date |-> VDate(DateOf(t2)) ])
        e1 == RunStage(e0, "sentiment", enabled,
                       StageCall("sentiment", text, outc["sentiment"]))
        e2 == RunStage(e1, "entity", enabled,
                       StageCall("entity", text, outc["entity"]))
        e3 == RunStage(e2, "topic", enabled,
                       StageCall("topic", text, outc["topic"]))
        e4 == RunStage(e3, "engagement", enabled,
                       [raised |-> FALSE, value |-> score(record, t3)])
        e5 == RunStage(e4, "moderation", enabled,
                       StageCall("moderation", text, outc["moderation"]))
        r1 == PopInto(e5, "text", "source_text", VStr(""))
        r2 == PopInto(r1, "author", "source_author", VStr(""))
        r3 == PopInto(r2, "retweets", "shares", VInt(0))
    IN  PopInto(r3, "replies", "comments", VInt(0))

----------------------------------------------------------------------------
(* The source tables (never modified) *)

XTweet(id, text, likes, retweets, replies, views, posted_at, scraped_at) ==
    [ tweet_id |-> id, tweet_text |-> text, author |-> VStr("ann"),
      author_handle |-> VStr("@ann"), likes |-> VInt(likes),
      retweets |-> VInt(retweets), replies |-> VInt(replies),
      views |-> VInt(views), posted_at |-> posted_at,
      keyword |-> VStr("launch"), region |-> VStr(""),
      scraped_at |-> VTs(scraped_at) ]

RedditPost(id, title, caption, upvotes, comments, posted_at, scraped_at) ==
    [ post_id |-> id, title |-> title, caption |-> caption,
      author |-> VStr("bob"), upvotes |-> VInt(upvotes),
      comments |-> VInt(comments), posted_at |-> posted_at,
      keyword |-> VStr(""), scraped_at |-> VTs(scraped_at) ]

\* x_tweets holds numeric ids, reddit_posts string ids; one row of x_tweets
\* has no text and is the most recently scraped.
SourceRows(table) ==
    CASE table = "x_tweets" ->
           { XTweet(VInt(1), VStr("Great launch!"), 10, 5, 2, 1000, VTs(0), 3),
             XTweet(VInt(2), VStr("ok"), 0, 0, 0, 0, Null, 2),
             XTweet(VInt(3), Null, 0, 0, 0, 0, Null, 5) }
      [] table = "reddit_posts" ->
           { RedditPost(VStr("1"), VStr("t"), Null, 10, 2, VTs(0), 1) }

----------------------------------------------------------------------------
(* common/athena_reader.py *)

\* a || b of the query engine: NULL when an operand is NULL
SqlConcat(a, b) ==
    IF a.t = "null" \/ b.t = "null" THEN Null ELSE VStr(a.v \o b.v)

SqlCoalesce(a, b, c) ==
    IF a.t # "null" THEN a ELSE IF b.t # "null" THEN b ELSE c

\* The value of the expression config.text_column on a source row.
EvalText(config, row) ==
    IF config.text_column = RedditText
    THEN SqlCoalesce(
           SqlConcat(SqlConcat(Get(row, "title"), VStr(" ")),
                     Get(row, "caption")),
           Get(row, "title"), Get(row, "caption"))
    ELSE Get(row, config.text_column)

\* The optional columns the SELECT list names, in the order of the code.
OptionalColumns(config) ==
    { c.v : c \in { x \in { config.author_column, config.likes_column,
                            config.shares_column, config.comments_column,
                            config.views_column, config.posted_at_column,
                            config.keyword_column, config.region_column,
                            config.url_column } : x.t # "null" } }

\* One row of the result, as dict(zip(columns, row)).
SelectRow(config, row) ==
    ("source_text" :> EvalText(config, row)) @@
    [ c \in {config.id_column, "scraped_at"} \cup OptionalColumns(config)
        |-> Get(row, c) ]

\* Fault injection: the join condition without the cast of the id column.
JoinMatchesNoCast(config, row, enr) ==
    { e \in enr :
        /\ SqlEq(Get(e, "source_table"), VStr(config.table))
        /\ SqlEq(Get(e, "source_id"), Get(row, config.id_column)) }

\* The rows of the LEFT JOIN's right side that match a source row.
JoinMatches(config, row, enr) ==
    { e \in enr :
        /\ SqlEq(Get(e, "source_table"), VStr(config.table))
        /\ SqlEq(Get(e, "source_id"), CastVarchar(Get(row, config.id_column))) }

\* Fault injection: the discovery query without its anti-join condition.
UnenrichedNoAntiJoin(config, src, enr) ==
    { row \in src : EvalText(config, row).t # "null" }

\* WHERE (text) IS NOT NULL AND enr.source_id IS NULL
Unenriched(config, src, enr) ==
    { row \in src : /\ EvalText(config, row).t # "null"
                    /\ JoinMatches(config, row, enr) = {} }

RECURSIVE OrderByScrapedDesc(_)
OrderByScrapedDesc(rows) ==
    IF rows = {} THEN <<>>
    ELSE LET top == CHOOSE r \in rows :
                      \A o \in rows : r.scraped_at.v >= o.scraped_at.v
         IN  <<top>> \o OrderByScrapedDesc(rows \ {top})

\* Fault injection: the query without its LIMIT.
TakeAll(q, n) == q

\* LIMIT n
Take(q, n) == SubSeq(q, 1, IF Len(q) < n THEN Len(q) ELSE n)

\* fetch_unenriched(config, limit) evaluated on the stores as they are
fetch_unenriched(config, limit, src, enr) ==
    LET ordered == Take(OrderByScrapedDesc(Unenriched(config, src, enr)), limit)
    IN  [ i \in DOMAIN ordered |-> SelectRow(config, ordered[i]) ]

----------------------------------------------------------------------------
(* common/athena_writer.py *)

KeyColumns == {"source_table", "source_id"}

KeyOf(rec) == <<Get(rec, "source_table"), Get(rec, "source_id")>>

\* MERGE INTO enrichments ... ON key WHEN MATCHED THEN UPDATE SET (every
\* column of the record but the key) WHEN NOT MATCHED THEN INSERT (record)
ApplyMerge(table, rec) ==
    LET matched == { row \in table :
                       /\ SqlEq(Get(row, "source_table"), Get(rec, "source_table"))
                       /\ SqlEq(Get(row, "source_id"), Get(rec, "source_id")) }
        sets == [ c \in (DOMAIN rec) \ KeyColumns |-> rec[c] ]
    IN  IF matched = {} THEN table \cup {rec}
        ELSE (table \ matched) \cup { Update(row, sets) : row \in matched }

\* Fault injection: a chunk whose first failing merge ends the chunk.
MergeChunkAbort(lo, hi, fails) ==
    LET bad == { i \in lo..hi : i \in fails }
        last == IF bad = {} THEN hi
                ELSE CHOOSE i \in bad : \A j \in bad : i <= j
    IN  [ k \in 1..(last - lo + 1) |->
            [ op |-> "merge", i |-> lo + k - 1,
              raised |-> (lo + k - 1) \in fails ] ]

\* One pass of the inner loop of merge_enriched_records_batch, records lo..hi:
\* try merge_enriched_record(record), except: print and go on.  fails is the
\* set of positions at which start_query_execution raises.
MergeChunk(lo, hi, fails) ==
    [ k \in 1..(hi - lo + 1) |->
        [ op |-> "merge", i |-> lo + k - 1,
          raised |-> (lo + k - 1) \in fails ] ]

RECURSIVE MergeFrom(_, _, _, _)
\* The outer loop of merge_enriched_records_batch from position i on:
\* for i in range(.., len(records), batch_size): chunk; time.sleep(1)
MergeFrom(n, batch_size, i, fails) ==
    IF i > n THEN <<>>
    ELSE LET hi == IF i + batch_size - 1 < n THEN i + batch_size - 1 ELSE n
         IN  MergeChunk(i, hi, fails) \o <<[op |-> "sleep"]>>
               \o MergeFrom(n, batch_size, i + batch_size, fails)

\* merge_enriched_records_batch(records, batch_size): the calls it makes, in
\* order, whether an exception leaves it, and the value it returns (the
\* function has no return statement: None).
\* range() raises ValueError for a step of 0 and is empty for a step < 0.
merge_enriched_records_batch(records, batch_size, fails) ==
    IF batch_size = 0
    THEN [ events |-> <<>>, raised |-> TRUE, returned |-> Null ]
    ELSE IF batch_size < 0
    THEN [ events |-> <<>>, raised |-> FALSE, returned |-> Null ]
    ELSE [ events |-> MergeFrom(Len(records), batch_size, 1, fails),
           raised |-> FALSE, returned |-> Null ]

\* Positions of the records whose merge statement was started.
Started(events) ==
    { events[k].i : k \in { j \in DOMAIN events :
                              events[j].op = "merge" /\ ~events[j].raised } }

\* Positions of the records whose merge raised and was logged.
Raised(events) ==
    { events[k].i : k \in { j \in DOMAIN events :
                              events[j].op = "merge" /\ events[j].raised } }

----------------------------------------------------------------------------
(* Bounds of the model *)

MaxRuns == 2

MaxFaults == 1

MaxPolls == 2

MaxLimit == 2

MaxBatchSize == 2

MaxBatchLen == 3

\* A stall of one iteration of the poll loop, in seconds, beyond its sleep.
LongStall == 299

----------------------------------------------------------------------------
(* The process environment *)

Envs ==
    [ api_key : BOOLEAN, enable : [StageSet -> BOOLEAN],
      limit : 1..MaxLimit, batch_size : 0..MaxBatchSize ]

\* The pipeline runs with every ENABLE_* toggle at its default, 'true'.
PipelineEnvs == { e \in Envs : \A s \in StageSet : e.enable[s] }

Providers == { ProviderOrder[i] : i \in DOMAIN ProviderOrder }

NoProviderHist ==
    [ fetch |-> "no", vis |-> FALSE, ncand |-> 0, ids |-> <<>>,
      write |-> "no" ]

NoRunHist ==
    [ ddl_count |-> 0, prov |-> "no", uncaught |-> FALSE,
      p |-> [name \in Providers |-> NoProviderHist] ]

AllKeys ==
    UNION { { <<PROVIDERS[name].table,
                PyStr(Get(row, PROVIDERS[name].id_column))>> :
              row \in SourceRows(PROVIDERS[name].table) } : name \in Providers }

\* (source_table, source_id) of a record, as plain strings
Ident(rec) == <<Get(rec, "source_table").v, Get(rec, "source_id").v>>

NoCall == [done |-> FALSE]

\* The state before any process has run, but for the environment.
InitStores ==
    /\ enrichments = {}
    /\ queries = {}
    /\ engine_failed = {}
    /\ ddl = "NONE"
    /\ clock = 0
    /\ run = 0
    /\ pc = "idle"
    /\ pidx = 0
    /\ enriched_records = <<>>
    /\ total_enriched = 0
    /\ elapsed = 0
    /\ polls = 0
    /\ exit_status = <<>>
    /\ faults = 0
    /\ hist = [r \in 1..MaxRuns |-> NoRunHist]
    /\ enrich_count = [k \in AllKeys |-> 0]
    /\ lost = {}
    /\ writer_failed = {}
    /\ ecall = NoCall
    /\ wcall = NoCall
    /\ call = NoCall

Init ==
    /\ InitStores
    /\ env \in PipelineEnvs
    /\ modules_enabled = InitModules(env)

engine_vars == <<enrichments, queries, engine_failed, ddl>>

call_vars == <<ecall, wcall, call>>

----------------------------------------------------------------------------
(* main.py: main() and EnrichmentPipeline.run() *)

max_wait == 300

sleep_secs == 2

\* Fault injection: except branches that go on after a provisioning failure,
\* or that let a fetch failure through.
OnProvisionErrorContinue == "continue"

OnFetchErrorRaise == "raise"

\* What the except branches of run() do with the exception they catch.
OnProvisionError == "exit1"

OnFetchError == "continue"

OnWriteError == "continue"

\* Leaving the current step of run(): on to the next provider, or past the
\* last one to the end of run() and of main(), exit status 0 ("continue");
\* sys.exit(1) ("exit1"); or an exception leaving run() and main() ("raise"),
\* which ends the process with status 1 too.
Leave(how) ==
    IF how = "continue"
    THEN IF pidx < Len(ProviderOrder)
         THEN /\ pc' = "provider"
              /\ pidx' = pidx + 1
              /\ exit_status' = exit_status
         ELSE /\ pc' = "idle"
              /\ pidx' = pidx
              /\ exit_status' = Append(exit_status, 0)
    ELSE /\ pc' = "idle"
         /\ pidx' = pidx
         /\ exit_status' = Append(exit_status, 1)

\* main(): a new process reads its environment and constructs the pipeline.
Start ==
    /\ pc = "idle"
    /\ run < MaxRuns
    /\ run' = run + 1
    /\ clock' = clock + 1
    /\ \E e \in PipelineEnvs :
         /\ e.limit = env.limit
         /\ e.batch_size = env.batch_size
         /\ env' = e
         /\ modules_enabled' = InitModules(e)
    /\ pc' = "provision"
    /\ pidx' = 0
    /\ enriched_records' = <<>>
    /\ total_enriched' = 0
    /\ UNCHANGED <<elapsed, polls, exit_status, faults, hist, enrich_count,
                   lost, writer_failed>>
    /\ UNCHANGED engine_vars
    /\ UNCHANGED call_vars

\* run() step 1, create_enrichments_table -> execute_query: the statement is
\* started and _wait_for_query begins.
Provision ==
    /\ pc = "provision"
    /\ ddl' = "RUNNING"
    /\ elapsed' = 0
    /\ polls' = 0
    /\ pc' = "wait"
    /\ hist' = [hist EXCEPT ![run].ddl_count = @ + 1]
    /\ UNCHANGED <<enrichments, queries, engine_failed, clock,
                   run, env, modules_enabled, pidx, enriched_records,
                   total_enriched, exit_status, faults, enrich_count, lost,
                   writer_failed>>
    /\ UNCHANGED call_vars

\* start_query_execution of the provisioning statement raises.
ProvisionStartRaises ==
    /\ pc = "provision"
    /\ faults < MaxFaults
    /\ faults' = faults + 1
    /\ hist' = [hist EXCEPT ![run].ddl_count = @ + 1,
                            ![run].prov = "failed",
                            ![run].uncaught = (OnProvisionError = "raise")]
    /\ Leave(OnProvisionError)
    /\ UNCHANGED <<clock, run, env, modules_enabled, enriched_records,
                   total_enriched, elapsed, polls, enrich_count, lost,
                   writer_failed>>
    /\ UNCHANGED engine_vars
    /\ UNCHANGED call_vars

\* _wait_for_query: the ceiling is exceeded, TimeoutError.
WaitTimeout ==
    /\ pc = "wait"
    /\ elapsed > max_wait
    /\ hist' = [hist EXCEPT ![run].prov = "failed",
                            ![run].uncaught = (OnProvisionError = "raise")]
    /\ Leave(OnProvisionError)
    /\ elapsed' = 0
    /\ polls' = 0
    /\ UNCHANGED <<clock, run, env, modules_enabled, enriched_records,
                   total_enriched, faults, enrich_count, lost,
                   writer_failed>>
    /\ UNCHANGED engine_vars
    /\ UNCHANGED call_vars

\* _wait_for_query: the state read is SUCCEEDED, the wait returns and run()
\* goes on to its provider loop.
WaitSucceeded ==
    /\ pc = "wait"
    /\ elapsed <= max_wait
    /\ ddl = "SUCCEEDED"
    /\ hist' = [hist EXCEPT ![run].prov = "ok"]
    /\ pc' = "provider"
    /\ pidx' = 1
    /\ elapsed' = 0
    /\ polls' = 0
    /\ UNCHANGED <<clock, run, env, modules_enabled, enriched_records,
                   total_enriched, exit_status, faults,
                   enrich_count, lost, writer_failed>>
    /\ UNCHANGED engine_vars
    /\ UNCHANGED call_vars

\* _wait_for_query: the state read is FAILED or CANCELLED, Exception.
WaitFailed ==
    /\ pc = "wait"
    /\ elapsed <= max_wait
    /\ ddl \in {"FAILED", "CANCELLED"}
    /\ hist' = [hist EXCEPT ![run].prov = "failed",
                            ![run].uncaught = (OnProvisionError = "raise")]
    /\ Leave(OnProvisionError)
    /\ elapsed' = 0
    /\ polls' = 0
    /\ UNCHANGED <<clock, run, env, modules_enabled, enriched_records,
                   total_enriched, faults, enrich_count, lost,
                   writer_failed>>
    /\ UNCHANGED engine_vars
    /\ UNCHANGED call_vars

\* _wait_for_query: the state read is not terminal, time.sleep(2).
WaitSleep ==
    /\ pc = "wait"
    /\ elapsed <= max_wait
    /\ ddl = "RUNNING"
    /\ polls < MaxPolls
    /\ polls' = polls + 1
    /\ elapsed' = elapsed + sleep_secs
    /\ UNCHANGED <<clock, run, pc, env, modules_enabled, pidx,
                   enriched_records, total_enriched, exit_status, faults,
                   hist, enrich_count, lost, writer_failed>>
    /\ UNCHANGED engine_vars
    /\ UNCHANGED call_vars

\* As WaitSleep, with the iteration stalled (a slow call, a suspended host).
WaitStall ==
    /\ pc = "wait"
    /\ elapsed <= max_wait
    /\ ddl = "RUNNING"
    /\ polls < MaxPolls
    /\ faults < MaxFaults
    /\ faults' = faults + 1
    /\ polls' = polls + 1
    /\ elapsed' = elapsed + sleep_secs + LongStall
    /\ UNCHANGED <<clock, run, pc, env, modules_enabled, pidx,
                   enriched_records, total_enriched, exit_status, hist,
                   enrich_count, lost, writer_failed>>
    /\ UNCHANGED engine_vars
    /\ UNCHANGED call_vars

CurrentProvider == ProviderOrder[pidx]

\* Every merge statement an earlier run started has ended: what those runs
\* wrote is in the results table when the discovery query of this run runs.
PriorWritesEnded == \A q \in queries : q.run = run

\* The service's behaviour at the calls made for n records: per record and
\* service-backed stage "ok" or "raise"; a raise is an environment failure.
Outcomes(n, budget) ==
    { o \in [1..n -> [ZaiStages -> {"ok", "raise"}]] :
        /\ \A i \in 1..n : \A s \in ZaiStages :
             o[i][s] = "raise" => modules_enabled[s]
        /\ Cardinality({ <<i, s>> \in (1..n) \X ZaiStages :
                           o[i][s] = "raise" }) <= budget }

RaiseCount(o) ==
    Cardinality({ <<i, s>> \in (DOMAIN o) \X ZaiStages : o[i][s] = "raise" })

\* A discovery query of the current run has raised already: the source
\* store is down, one environment failure that lasts for the run.
SourceDown == \E name \in Providers : hist[run].p[name].fetch = "raise"

\* run(): fetch_unenriched raises for the current provider.
FetchRaises ==
    /\ pc = "provider"
    /\ SourceDown \/ faults < MaxFaults
    /\ faults' = IF SourceDown THEN faults ELSE faults + 1
    /\ hist' = [hist EXCEPT ![run].p[CurrentProvider].fetch = "raise",
                            ![run].p[CurrentProvider].vis = PriorWritesEnded,
                            ![run].uncaught = (OnFetchError = "raise")]
    /\ Leave(OnFetchError)
    /\ UNCHANGED <<clock, run, env, modules_enabled, enriched_records,
                   total_enriched, elapsed, polls, enrich_count, lost,
                   writer_failed>>
    /\ UNCHANGED engine_vars
    /\ UNCHANGED call_vars

\* run(): the discovery query of the current provider returns; the rows are
\* normalized and each is enriched.
FetchAndEnrich ==
    /\ pc = "provider"
    /\ LET config == PROVIDERS[CurrentProvider]
           src == SourceRows(config.table)
           raw_records == fetch_unenriched(config, env.limit, src, enrichments)
           normalized == [ i \in DOMAIN raw_records |->
                             normalize_record(raw_records[i], config) ]
       IN  /\ hist' = [hist EXCEPT
                  ![run].p[CurrentProvider].fetch = "ok",
                  ![run].p[CurrentProvider].vis = PriorWritesEnded,
                  ![run].p[CurrentProvider].ncand =
                      Cardinality(Unenriched(config, src, enrichments)),
                  ![run].p[CurrentProvider].ids =
                      [ i \in DOMAIN normalized |-> Ident(normalized[i]) ]]
           /\ IF raw_records = <<>>
              THEN /\ Leave("continue")
                   /\ UNCHANGED <<enriched_records, enrich_count, faults>>
              ELSE /\ \E o \in Outcomes(Len(normalized), MaxFaults - faults) :
                        /\ enriched_records' =
                             [ i \in DOMAIN normalized |->
                                 _enrich_record(normalized[i], modules_enabled,
                                                o[i], clock, clock, clock) ]
                        /\ faults' = faults + RaiseCount(o)
                   /\ enrich_count' =
                        [ k \in AllKeys |->
                            enrich_count[k] +
                              Cardinality({ i \in DOMAIN normalized :
                                              Ident(normalized[i]) = k }) ]
                   /\ pc' = "write"
                   /\ UNCHANGED <<pidx, exit_status>>
    /\ UNCHANGED <<clock, run, env, modules_enabled, total_enriched, elapsed,
                   polls, lost, writer_failed>>
    /\ UNCHANGED engine_vars
    /\ UNCHANGED call_vars

\* run(): merge_enriched_records_batch for the current provider, then the
\* counter and on to the next provider.
WriteBatch ==
    /\ pc = "write"
    /\ \E fails \in SUBSET (1..Len(enriched_records)) :
         /\ Cardinality(fails) <= MaxFaults - faults
         /\ env.batch_size <= 0 => fails = {}
         /\ LET res == merge_enriched_records_batch(enriched_records,
                                                    env.batch_size, fails)
                started == { enriched_records[i] : i \in Started(res.events) }
                raised == { enriched_records[i] : i \in Raised(res.events) }
                all == { enriched_records[i] : i \in DOMAIN enriched_records }
            IN  /\ faults' = faults + Cardinality(fails)
                /\ queries' = queries \cup
                                { [run |-> run, rec |-> r] : r \in started }
                /\ writer_failed' = writer_failed \cup
                                { [run |-> run, rec |-> r] : r \in raised }
                /\ lost' = lost \cup
                             { Ident(r) : r \in all \ started }
                /\ IF res.raised
                   THEN /\ total_enriched' = total_enriched
                        /\ hist' = [hist EXCEPT
                              ![run].p[CurrentProvider].write = "raise",
                              ![run].uncaught = (OnWriteError = "raise")]
                        /\ Leave(OnWriteError)
                   ELSE /\ total_enriched' =
                             total_enriched + Len(enriched_records)
                        /\ hist' = [hist EXCEPT
                              ![run].p[CurrentProvider].write = "ok"]
                        /\ Leave("continue")
    /\ enriched_records' = <<>>
    /\ UNCHANGED <<enrichments, engine_failed, ddl>>
    /\ UNCHANGED <<clock, run, env, modules_enabled, elapsed, polls,
                   enrich_count>>
    /\ UNCHANGED call_vars

----------------------------------------------------------------------------
(* The query engine *)

proc_vars == <<clock, run, pc, env, modules_enabled, pidx, enriched_records,
               total_enriched, elapsed, polls, exit_status, hist,
               enrich_count, writer_failed>>

\* CREATE TABLE IF NOT EXISTS ends SUCCEEDED.
EngineDdlSucceeds ==
    /\ ddl = "RUNNING"
    /\ ddl' = "SUCCEEDED"
    /\ UNCHANGED <<enrichments, queries, engine_failed, faults, lost>>
    /\ UNCHANGED proc_vars
    /\ UNCHANGED call_vars

\* The provisioning statement ends FAILED or CANCELLED.
EngineDdlFails ==
    /\ ddl = "RUNNING"
    /\ faults < MaxFaults
    /\ faults' = faults + 1
    /\ \E st \in {"FAILED", "CANCELLED"} : ddl' = st
    /\ UNCHANGED <<enrichments, queries, engine_failed, lost>>
    /\ UNCHANGED proc_vars
    /\ UNCHANGED call_vars

\* A merge statement ends SUCCEEDED: the upsert takes effect.
EngineMergeSucceeds ==
    /\ \E q \in queries :
         /\ enrichments' = ApplyMerge(enrichments, q.rec)
         /\ queries' = queries \ {q}
    /\ UNCHANGED <<engine_failed, ddl, faults, lost>>
    /\ UNCHANGED proc_vars
    /\ UNCHANGED call_vars

\* A merge statement ends FAILED or CANCELLED: nothing is written.
EngineMergeFails ==
    /\ faults < MaxFaults
    /\ faults' = faults + 1
    /\ \E q \in queries : \E st \in {"FAILED", "CANCELLED"} :
         /\ queries' = queries \ {q}
         /\ engine_failed' = engine_failed \cup {[q |-> q, state |-> st]}
         /\ lost' = lost \cup {Ident(q.rec)}
    /\ UNCHANGED <<enrichments, ddl>>
    /\ UNCHANGED proc_vars
    /\ UNCHANGED call_vars

Next ==
    \/ Start
    \/ Provision
    \/ ProvisionStartRaises
    \/ WaitTimeout
    \/ WaitSucceeded
    \/ WaitFailed
    \/ WaitSleep
    \/ WaitStall
    \/ FetchRaises
    \/ FetchAndEnrich
    \/ WriteBatch
    \/ EngineDdlSucceeds
    \/ EngineDdlFails
    \/ EngineMergeSucceeds
    \/ EngineMergeFails

Spec == Init /\ [][Next]_vars

----------------------------------------------------------------------------
(* One call of _enrich_record, on a pipeline constructed in any environment *)

MaxTick == 1

\* The records run() hands to _enrich_record: every source row, selected
\* and normalized under its provider's configuration.
EnrichInputs ==
    UNION { { normalize_record(SelectRow(PROVIDERS[name], row), PROVIDERS[name]) :
              row \in SourceRows(PROVIDERS[name].table) } : name \in Providers }

\* Clock readings of the first datetime.now() of a call: early in a day, and
\* in the last hour of a day.
CallTimes == {1, HoursPerDay - 1}

InitEnrich ==
    /\ InitStores
    /\ env \in { e \in Envs : e.limit = 1 /\ e.batch_size = 1 }
    /\ modules_enabled = InitModules(env)

EnrichCall ==
    /\ ~ecall.done
    /\ \E record \in EnrichInputs :
       \E outc \in [ZaiStages -> {"ok", "raise"}] :
       \E t1 \in CallTimes : \E d2 \in 0..MaxTick : \E d3 \in 0..MaxTick :
         /\ \A s \in ZaiStages : outc[s] = "raise" => modules_enabled[s]
         /\ ecall' = [ done |-> TRUE, record |-> record, outc |-> outc,
                       t1 |-> t1, t2 |-> t1 + d2, t3 |-> t1 + d2 + d3,
                       out |-> _enrich_record(record, modules_enabled, outc,
                                              t1, t1 + d2, t1 + d2 + d3) ]
    /\ UNCHANGED <<clock, run, pc, env, modules_enabled, pidx,
                   enriched_records, total_enriched, elapsed, polls,
                   exit_status, faults, hist, enrich_count, lost,
                   writer_failed, wcall, call>>
    /\ UNCHANGED engine_vars

NextEnrich == EnrichCall

SpecEnrich == InitEnrich /\ [][NextEnrich]_vars

----------------------------------------------------------------------------
(* One call of merge_enriched_records_batch *)

\* Enriched records to write: the inputs of _enrich_record enriched by a
\* pipeline whose stages all initialised, the service answering every call.
BatchRecords ==
    { _enrich_record(r, [s \in StageSet |-> TRUE],
                     [s \in ZaiStages |-> "ok"], 1, 1, 1) : r \in EnrichInputs }

RECURSIVE SeqsUpTo(_, _)
\* The sequences over S of length at most n
SeqsUpTo(S, n) ==
    IF n = 0 THEN {<<>>}
    ELSE LET shorter == SeqsUpTo(S, n - 1)
         IN  shorter \cup { Append(q, x) : q \in shorter, x \in S }

InitWrite ==
    /\ InitStores
    /\ env \in { e \in PipelineEnvs : e.api_key /\ e.limit = 1 /\ e.batch_size = 1 }
    /\ modules_enabled = InitModules(env)

WriteCall ==
    /\ ~wcall.done
    /\ \E records \in SeqsUpTo(BatchRecords, MaxBatchLen) :
       \E batch_size \in 0..MaxBatchSize :
       \E fails \in SUBSET (1..Len(records)) :
         /\ batch_size = 0 => fails = {}
         /\ wcall' = [ done |-> TRUE, records |-> records,
                       batch_size |-> batch_size, fails |-> fails,
                       res |-> merge_enriched_records_batch(records, batch_size,
                                                            fails) ]
    /\ UNCHANGED <<clock, run, pc, env, modules_enabled, pidx,
                   enriched_records, total_enriched, elapsed, polls,
                   exit_status, faults, hist, enrich_count, lost,
                   writer_failed, ecall, call>>
    /\ UNCHANGED engine_vars

NextWrite == WriteCall

SpecWrite == InitWrite /\ [][NextWrite]_vars

----------------------------------------------------------------------------
(* Properties of the pipeline (Spec): discovery and re-runs *)

\* The first run did all it could: provisioning succeeded, every discovery
\* and every write-batch returned, and every merge took effect.
FirstRunClean ==
    /\ Len(exit_status) >= 1
    /\ exit_status[1] = 0
    /\ \A name \in Providers :
         hist[1].p[name].fetch = "ok" /\ hist[1].p[name].write # "raise"
    /\ lost = {}

\* C1, as stated: when a first run has discovered, enriched and written, and
\* all it wrote is in the results table before the second run's discovery
\* query executes, the second run's discovery returns no record for any
\* provider.
C1_SecondPassFindsNothing ==
    \A name \in Providers :
      ( /\ FirstRunClean
        /\ hist[2].p[name].fetch = "ok"
        /\ hist[2].p[name].vis )
      => hist[2].p[name].ids = <<>>

\* C1, amended: when a run's discovery for a provider returned every
\* unenriched record of that provider (no more of them than the limit), and
\* the merge of each took effect before the next run's discovery query
\* executes, the next run's discovery returns no record for that provider.
C1_RerunFindsNothingLeft ==
    \A r \in 2..MaxRuns : \A name \in Providers :
      ( /\ hist[r - 1].p[name].fetch = "ok"
        /\ hist[r - 1].p[name].ncand <= env.limit
        /\ \A i \in DOMAIN hist[r - 1].p[name].ids :
             hist[r - 1].p[name].ids[i] \notin lost
        /\ hist[r].p[name].fetch = "ok"
        /\ hist[r].p[name].vis )
      => hist[r].p[name].ids = <<>>

\* A second discovery of x_tweets that finds nothing, after a first one that
\* returned both unenriched tweets and whose merges took effect.
C1_Witness ==
    /\ hist[1].p["x_tweets"].fetch = "ok"
    /\ hist[1].p["x_tweets"].ncand = 2
    /\ Len(hist[1].p["x_tweets"].ids) = 2
    /\ lost = {}
    /\ hist[2].p["x_tweets"].fetch = "ok"
    /\ hist[2].p["x_tweets"].vis
    /\ hist[2].p["x_tweets"].ids = <<>>

\* Every discovery of the provider by a run after the first ran when the
\* merges of the earlier runs had ended.
WritesVisible(name) ==
    \A r \in 2..MaxRuns :
      hist[r].p[name].fetch = "ok" => hist[r].p[name].vis

KeysOf(name) == { k \in AllKeys : k[1] = PROVIDERS[name].table }

\* C2, as stated: over runs each of whose writes are visible before the next
\* run's discovery query, no source record (source_table, source_id) is
\* enriched more than once.
C2_EnrichedAtMostOnce ==
    \A name \in Providers :
      WritesVisible(name) =>
        \A k \in KeysOf(name) : enrich_count[k] <= 1

\* C2, amended: over such runs, a source record is enriched more than once
\* only if a merge of it did not take effect (its start raised, the engine
\* ended it FAILED or CANCELLED, or the write-batch raised before it).
C2_EnrichedAgainOnlyIfLost ==
    \A name \in Providers :
      WritesVisible(name) =>
        \A k \in KeysOf(name) : enrich_count[k] > 1 => k \in lost

\* A record enriched by two runs, the second discovery having run after the
\* first run's merges had ended, one of them without effect.
C2_Witness ==
    \E name \in Providers : \E k \in KeysOf(name) :
      /\ WritesVisible(name)
      /\ hist[2].p[name].fetch = "ok"
      /\ enrich_count[k] = 2
      /\ k \in lost

----------------------------------------------------------------------------
(* Properties of _enrich_record (SpecEnrich) *)

AllStageFields == UNION { StageFields(s) : s \in StageSet }

\* C3: if the service raises for one stage while a record is enriched, the
\* enriched record holds exactly that stage's default bundle (sentiment:
\* label 'unknown', score 0.0, no emotions, no topics), and every other
\* field is as it is when that stage does not fail.
C3_StageFailureFallback ==
    ecall.done =>
      \A s \in ZaiStages :
        (ecall.outc[s] = "raise" /\ ~IsBlank(ecall.record.text.v)) =>
          LET ref == _enrich_record(ecall.record, modules_enabled,
                                    [ecall.outc EXCEPT ![s] = "ok"],
                                    ecall.t1, ecall.t2, ecall.t3)
          IN  /\ \A f \in StageFields(s) :
                   /\ f \in DOMAIN ecall.out
                   /\ ecall.out[f] = FallbackBundle(s)[f]
              /\ \A f \in (DOMAIN ref) \ StageFields(s) :
                   /\ f \in DOMAIN ecall.out
                   /\ ecall.out[f] = ref[f]

\* C4: every record _enrich_record returns holds every field of the five
\* stage blocks and enriched_at, enrichment_version and date, whether a stage
\* succeeded, failed during its call or failed to initialise (every stage
\* being switched on).
C4_FullyPopulated ==
    (ecall.done /\ \A s \in StageSet : env.enable[s]) =>
      (AllStageFields \cup MetaFields) \subseteq DOMAIN ecall.out

----------------------------------------------------------------------------
(* Properties of merge_enriched_records_batch (SpecWrite) *)

\* C5: for a batch in which one record's merge raises, the call does not
\* raise and reports a written count (every other record) and a failed
\* count (that record).
C5_BatchReportsCounts ==
    (wcall.done /\ wcall.batch_size >= 1 /\ Cardinality(wcall.fails) = 1) =>
      /\ ~wcall.res.raised
      /\ DOMAIN wcall.res.returned = {"written", "failed"}
      /\ wcall.res.returned.written = Len(wcall.records) - 1
      /\ wcall.res.returned.failed = 1

\* The merge attempts among the events of a call, in the order made.
MergeEvents(events) ==
    SelectSeq(events, LAMBDA e : e.op = "merge")

\* The chunk a position falls in.
ChunkOf(i, batch_size) == (i - 1) \div batch_size

\* C6: for a batch size of at least 1 and any failures, the call makes one
\* merge attempt per record, in input order, a failure at one record
\* preventing no later attempt; two attempts that follow each other
\* directly are of one chunk, and after the last attempt of a chunk that is
\* not the last comes a pause.
C6_EveryRecordAttemptedInOrder ==
    (wcall.done /\ wcall.batch_size >= 1) =>
      LET events == wcall.res.events
          merges == MergeEvents(events)
          n == Len(wcall.records)
      IN  /\ ~wcall.res.raised
          /\ Len(merges) = n
          /\ \A k \in 1..n :
               merges[k].i = k /\ (merges[k].raised <=> k \in wcall.fails)
          /\ \A j \in 1..(Len(events) - 1) :
               events[j].op = "merge" =>
                 IF events[j + 1].op = "merge"
                 THEN ChunkOf(events[j].i, wcall.batch_size)
                        = ChunkOf(events[j + 1].i, wcall.batch_size)
                 ELSE events[j].i % wcall.batch_size = 0 \/ events[j].i = n
          /\ \A j \in 1..(Len(events) - 1) :
               ( /\ events[j].op = "merge"
                 /\ events[j].i < n
                 /\ events[j].i % wcall.batch_size = 0 )
               => events[j + 1].op = "sleep"

\* Three records in chunks of two, the first record's merge raising: the
\* second and the third are attempted all the same, a pause between chunks.
C6_Witness ==
    /\ wcall.done
    /\ wcall.batch_size = 2
    /\ Len(wcall.records) = 3
    /\ wcall.fails = {1}
    /\ wcall.res.events =
         << [op |-> "merge", i |-> 1, raised |-> TRUE],
            [op |-> "merge", i |-> 2, raised |-> FALSE],
            [op |-> "sleep"],
            [op |-> "merge", i |-> 3, raised |-> FALSE],
            [op |-> "sleep"] >>

----------------------------------------------------------------------------
(* Properties of the pipeline (Spec): merges, provisioning, providers *)

\* C7: a merge that takes effect leaves exactly one row with its key, that
\* row holding the record's values in every column (a matched row updated
\* in all its non-key columns, an unmatched record inserted in full), and
\* leaves the rows of other keys as they were.
C7_MergeOverwritesRow ==
    [][ \A q \in queries :
          (q \notin queries' /\ engine_failed' = engine_failed) =>
            /\ { row \in enrichments' : KeyOf(row) = KeyOf(q.rec) } = {q.rec}
            /\ { row \in enrichments' : KeyOf(row) # KeyOf(q.rec) }
                 = { row \in enrichments : KeyOf(row) # KeyOf(q.rec) } ]_vars

\* C8: a merge the engine ended FAILED or CANCELLED is one the writer
\* handled as the failure of that record's upsert.
C8_EngineFailureHandled ==
    \A f \in engine_failed : f.q \in writer_failed

\* C9: in every run the provisioning statement is executed once, and it has
\* succeeded before any discovery query of the run; after a provisioning
\* failure the run issues no discovery query and no merge, and its process
\* ends with a non-zero status.
C9_ProvisionedBeforeDiscovery ==
    \A r \in 1..MaxRuns :
      /\ hist[r].ddl_count <= 1
      /\ (\E name \in Providers : hist[r].p[name].fetch # "no") =>
           hist[r].prov = "ok" /\ hist[r].ddl_count = 1
      /\ hist[r].prov = "failed" =>
           /\ \A name \in Providers :
                hist[r].p[name].fetch = "no" /\ hist[r].p[name].write = "no"
           /\ \A q \in queries : q.run # r
           /\ r <= Len(exit_status)
           /\ exit_status[r] # 0

\* A run whose provisioning failed and which ended with status 1, followed
\* by a run that provisioned and then discovered.
C9_Witness ==
    /\ hist[1].prov = "failed"
    /\ exit_status[1] = 1
    /\ hist[2].prov = "ok"
    /\ hist[2].ddl_count = 1
    /\ hist[2].p["x_tweets"].fetch = "ok"

\* C10: no exception leaves run() because of a provider; in a run that
\* provisioned and has ended, every provider was discovered and every
\* provider whose discovery returned records was enriched and written,
\* whatever failed at the providers before it, and the status is 0.
C10_ProviderFailureContained ==
    \A r \in 1..MaxRuns :
      /\ ~hist[r].uncaught
      /\ (r <= Len(exit_status) /\ hist[r].prov = "ok") =>
           /\ exit_status[r] = 0
           /\ \A name \in Providers :
                /\ hist[r].p[name].fetch # "no"
                /\ ( hist[r].p[name].fetch = "ok"
                     /\ hist[r].p[name].ids # <<>> ) =>
                     hist[r].p[name].write # "no"

\* A run in which the discovery of x_tweets raised and reddit_posts was
\* discovered, enriched and written.
C10_Witness ==
    /\ Len(exit_status) >= 1
    /\ exit_status[1] = 0
    /\ hist[1].p["x_tweets"].fetch = "raise"
    /\ hist[1].p["reddit_posts"].fetch = "ok"
    /\ hist[1].p["reddit_posts"].write = "ok"

\* C11: a run in which the discovery query failed for every provider ends
\* with a non-zero status; a run in which it failed for some providers only
\* (or for none) goes through the remaining providers and ends with
\* status 0.
C11_ExitStatusByFetchFailures ==
    \A r \in 1..MaxRuns :
      (r <= Len(exit_status) /\ hist[r].prov = "ok") =>
        IF \A name \in Providers : hist[r].p[name].fetch = "raise"
        THEN exit_status[r] # 0
        ELSE /\ exit_status[r] = 0
             /\ \A name \in Providers : hist[r].p[name].fetch # "no"

----------------------------------------------------------------------------
(* One call of fetch_unenriched, on any source table and results table *)

\* The variables a single call of a function leaves alone.
other_vars == <<clock, run, pc, env, modules_enabled, pidx, enriched_records,
                total_enriched, elapsed, polls, exit_status, faults, hist,
                enrich_count, lost, writer_failed, ecall, wcall>>

InitCall ==
    /\ InitStores
    /\ env \in { e \in PipelineEnvs : e.api_key /\ e.limit = 1 /\ e.batch_size = 1 }
    /\ modules_enabled = InitModules(env)

\* The source table holds any of the rows of the model, the results table
\* any of the enriched records; the limit is ENRICHMENT_LIMIT.
FetchCall ==
    /\ ~call.done
    /\ \E name \in Providers :
       \E src \in SUBSET SourceRows(PROVIDERS[name].table) :
       \E enr \in SUBSET BatchRecords :
       \E limit \in 0..MaxLimit :
         call' = [ done |-> TRUE, fn |-> "fetch_unenriched", name |-> name,
                   src |-> src, enr |-> enr, limit |-> limit,
                   rows |-> fetch_unenriched(PROVIDERS[name], limit, src, enr) ]
    /\ UNCHANGED other_vars
    /\ UNCHANGED engine_vars

NextFetch == FetchCall

SpecFetch == InitCall /\ [][NextFetch]_vars

\* The source rows a call of fetch_unenriched may return: their text is not
\* null and the results table holds no row of this provider's table with
\* the string form of their id.
Candidates(c) ==
    LET config == PROVIDERS[c.name]
    IN  { r \in c.src :
            /\ EvalText(config, r).t # "null"
            /\ ~ \E e \in c.enr :
                   /\ e.source_table = VStr(config.table)
                   /\ e.source_id = VStr(PyStr(r[config.id_column])) }

\* C12: fetch_unenriched returns at most limit rows, each of a candidate
\* (text not null, no row of the results table with its key); when there
\* are more candidates than limit, no candidate left out was scraped later
\* than a row returned.
C12_FetchReturnsLatestUnenriched ==
    (call.done /\ call.fn = "fetch_unenriched") =>
      LET config == PROVIDERS[call.name]
          rows == call.rows
          ids == { rows[i][config.id_column] : i \in DOMAIN rows }
      IN  /\ Len(rows) <= call.limit
          /\ \A i \in DOMAIN rows :
               /\ rows[i].source_text.t # "null"
               /\ \E r \in Candidates(call) : rows[i] = SelectRow(config, r)
          /\ Cardinality(Candidates(call)) > call.limit =>
               /\ Len(rows) = call.limit
               /\ \A r \in Candidates(call) : \A i \in DOMAIN rows :
                    r[config.id_column] \notin ids =>
                      r.scraped_at.v <= rows[i].scraped_at.v

\* Two unenriched tweets and limit 1, the results table holding the reddit
\* post with the same id as the tweet returned: the later scraped tweet.
C12_Witness ==
    /\ call.done
    /\ call.fn = "fetch_unenriched"
    /\ call.name = "x_tweets"
    /\ call.limit = 1
    /\ Cardinality(Candidates(call)) = 2
    /\ \E e \in call.enr : e.source_id = VStr("1")
    /\ Len(call.rows) = 1
    /\ call.rows[1].tweet_id = VInt(1)

----------------------------------------------------------------------------
(* Calls of normalize_record, on two raw rows under one configuration *)

\* A ProviderConfig with only table, id_column and text_column set.
MinimalConfig ==
    [ table |-> "bare", id_column |-> "id", text_column |-> "body",
      author_column |-> Null, likes_column |-> Null, shares_column |-> Null,
      comments_column |-> Null, views_column |-> Null,
      posted_at_column |-> Null, keyword_column |-> Null,
      region_column |-> Null, url_column |-> Null ]

NormConfigs == { PROVIDERS[name] : name \in Providers } \cup {MinimalConfig}

\* A row of a table with the required columns only.
RawBare(id) ==
    [ id |-> id, body |-> VStr("column"), source_text |-> VStr("alias"),
      scraped_at |-> VTs(1) ]

\* A row of x_tweets as the cursor returns it.
RawTweet(id, likes) ==
    [ tweet_id |-> id, tweet_text |-> VStr("column"),
      source_text |-> VStr("alias"), author |-> Null, likes |-> VInt(likes),
      retweets |-> Null, replies |-> VInt(0), views |-> VInt(3),
      posted_at |-> Null, keyword |-> VStr("k"), region |-> Null,
      scraped_at |-> VTs(1) ]

\* A row without any column (an empty dict).
EmptyRaw == [ k \in {} |-> Null ]

\* The raw rows: those the discovery query returns for the source rows of
\* the model, rows carrying the id 123 as a number and as a string, a row
\* with a negative counter, and the empty row.
NormRaws ==
    UNION { { SelectRow(PROVIDERS[name], row) :
              row \in SourceRows(PROVIDERS[name].table) } : name \in Providers }
    \cup { RawBare(VInt(123)), RawBare(VStr("123")),
           RawTweet(VInt(123), 5), RawTweet(VStr("123"), 5),
           RawTweet(VInt(7), -1), EmptyRaw }

NormalizeCall ==
    /\ ~call.done
    /\ \E config \in NormConfigs : \E raw \in NormRaws : \E raw2 \in NormRaws :
         call' = [ done |-> TRUE, fn |-> "normalize_record", config |-> config,
                   raw |-> raw, out |-> normalize_record(raw, config),
                   raw2 |-> raw2, out2 |-> normalize_record(raw2, config) ]
    /\ UNCHANGED other_vars
    /\ UNCHANGED engine_vars

NextNormalize == NormalizeCall

SpecNormalize == InitCall /\ [][NextNormalize]_vars

OptionalColumnFields ==
    { "author_column", "likes_column", "shares_column", "comments_column",
      "views_column", "posted_at_column", "keyword_column", "region_column",
      "url_column" }

RawId(raw, config) == Get(raw, config.id_column)

\* Two ids that are one id in two native types: a number and its decimal
\* string, or equal values.
SameIdInTwoTypes(a, b) ==
    \/ a = b
    \/ a.t = "int" /\ b.t = "str" /\ b.v = ToString(a.v)
    \/ a.t = "str" /\ b.t = "int" /\ a.v = ToString(b.v)

\* C14: normalize_record applied to two raw rows that carry the same id in
\* different native types (123 and "123") yields the same source_id, and
\* with it the same key (source_table, source_id).
C14_IdentityStable ==
    (call.done /\ call.fn = "normalize_record") =>
      ( ( /\ RawId(call.raw, call.config).t \in {"int", "str"}
          /\ SameIdInTwoTypes(RawId(call.raw, call.config),
                              RawId(call.raw2, call.config)) )
        => ( /\ call.out.source_id = call.out2.source_id
             /\ call.out.source_table = call.out2.source_table
             /\ call.out.source_id.t = "str" ) )

\* The number 123 and the string "123" normalized to the source_id "123".
C14_Witness ==
    /\ call.done
    /\ call.fn = "normalize_record"
    /\ RawId(call.raw, call.config) = VInt(123)
    /\ RawId(call.raw2, call.config) = VStr("123")
    /\ call.out.source_id = VStr("123")
    /\ call.out2.source_id = VStr("123")

\* C15: in every record normalize_record produces, likes, retweets, replies
\* and views are non-negative integers.
C15_CountersNonNegative ==
    (call.done /\ call.fn = "normalize_record") =>
      \A f \in {"likes", "retweets", "replies", "views"} :
        call.out[f].t = "int" /\ call.out[f].v >= 0

----------------------------------------------------------------------------
(* Calls of EngagementScorer.score, on two records at one current time *)

\* likes, retweets, replies, views: the counters of the source rows of the
\* model, all-zero and single-counter records, scores on both sides of each
\* threshold of the tiers (percentile 10, 25, 50, 75, 90 and the cap),
\* negative counters, and counters that are None.
ScoreCounts ==
    { <<VInt(0), VInt(0), VInt(0), VInt(0)>>,
      <<VInt(10), VInt(5), VInt(2), VInt(1000)>>,
      <<VInt(0), VInt(0), VInt(0), VInt(100)>>,
      <<VInt(0), VInt(1), VInt(0), VInt(0)>>,
      <<VInt(5), Null, Null, Null>>,
      <<VInt(5), VInt(3), VInt(0), Null>>,
      <<VInt(0), VInt(0), VInt(0), VInt(151)>>,
      <<VInt(0), VInt(0), VInt(0), VInt(152)>>,
      <<VInt(8), VInt(0), VInt(0), VInt(99)>>,
      <<VInt(9), VInt(0), VInt(0), VInt(0)>>,
      <<VInt(98), VInt(0), VInt(0), VInt(99)>>,
      <<VInt(99), VInt(0), VInt(0), VInt(0)>>,
      <<VInt(998), VInt(0), VInt(0), VInt(99)>>,
      <<VInt(999), VInt(0), VInt(0), VInt(0)>>,
      <<VInt(3980), VInt(0), VInt(0), VInt(7)>>,
      <<VInt(3980), VInt(0), VInt(0), VInt(8)>>,
      <<VInt(9999), VInt(0), VInt(0), VInt(0)>>,
      <<VInt(20000), VInt(0), VInt(0), VInt(0)>>,
      <<VInt(-10), VInt(0), VInt(0), VInt(0)>>,
      <<VInt(-1), VInt(1), VInt(0), VInt(0)>> }

\* posted_at: absent, a datetime (in hours), a string that is no ISO date
PostedAts == { Null, VTs(1), VTs(2), VTs(3), VStr("n/a") }

\* datetime.now() of the call, in hours
ScoreTimes == { 2, 3 }

ScoreIn(c, p) ==
    [ likes |-> c[1], retweets |-> c[2], replies |-> c[3], views |-> c[4],
      posted_at |-> p ]

\* The records given to score, one of them without any key.
ScoreInputs == { ScoreIn(c, p) : c \in ScoreCounts, p \in PostedAts }
               \cup { EmptyRaw }

ScoreCall ==
    /\ ~call.done
    /\ \E data \in ScoreInputs : \E data2 \in ScoreInputs :
       \E now \in ScoreTimes :
         call' = [ done |-> TRUE, fn |-> "score", now |-> now,
                   data |-> data, out |-> score(data, now),
                   data2 |-> data2, out2 |-> score(data2, now) ]
    /\ UNCHANGED other_vars
    /\ UNCHANGED engine_vars

NextScore == ScoreCall

SpecScore == InitCall /\ [][NextScore]_vars

\* The counter score reads under a key: 0 for None and for a missing key.
CounterOf(data, k) ==
    IF k \in DOMAIN data /\ data[k] # Null THEN data[k].v ELSE 0

Interactions(data) ==
    CounterOf(data, "likes") + CounterOf(data, "retweets")
      + CounterOf(data, "replies")

NumericScores ==
    { "engagement_score", "engagement_rate", "virality_score",
      "interaction_quality", "time_adjusted_score", "percentile_score" }

\* C16: score returns for every record (no division by zero):
\* engagement_rate is 0 when views is 0, virality_score is 0 when
\* likes + retweets + replies is 0, interaction_quality is 0 when likes is
\* 0; with all four counters 0 every numeric score is 0 and the tier is
\* "Low".
C16_ZeroDenominators ==
    (call.done /\ call.fn = "score") =>
      /\ (CounterOf(call.data, "views") = 0)
           => (call.out.engagement_rate = VFloat(0))
      /\ (Interactions(call.data) = 0)
           => (call.out.virality_score = VFloat(0))
      /\ (CounterOf(call.data, "likes") = 0)
           => (call.out.interaction_quality = VFloat(0))
      /\ (\A k \in {"likes", "retweets", "replies", "views"} :
            CounterOf(call.data, k) = 0)
           => ( /\ \A f \in NumericScores : call.out[f] = VFloat(0)
                /\ call.out.engagement_tier = VStr("Low") )

\* The all-zero record posted an hour ago, and a record with likes and no
\* views, both scored.
C16_Witness ==
    /\ call.done
    /\ call.fn = "score"
    /\ call.data = ScoreIn(<<VInt(0), VInt(0), VInt(0), VInt(0)>>, VTs(1))
    /\ call.out.engagement_tier = VStr("Low")
    /\ call.data2 = ScoreIn(<<VInt(9), VInt(0), VInt(0), VInt(0)>>, VTs(1))
    /\ call.out2.engagement_rate = VFloat(0)
    /\ call.out2.engagement_score = VFloat(90000)

\* The record with likes 10, retweets 5, replies 2, views 1000.
IsExampleRecord(data) ==
    /\ DOMAIN data = {"likes", "retweets", "replies", "views", "posted_at"}
    /\ data.likes = VInt(10)
    /\ data.retweets = VInt(5)
    /\ data.replies = VInt(2)
    /\ data.views = VInt(1000)

PostedOneHourAgo(data, now) ==
    data.posted_at.t = "ts" /\ now - data.posted_at.v = 1

ExampleScored ==
    /\ call.done
    /\ call.fn = "score"
    /\ IsExampleRecord(call.data)
    /\ PostedOneHourAgo(call.data, call.now)

TierRank(tier) ==
    CASE tier = "Low" -> 0
      [] tier = "Below Average" -> 1
      [] tier = "Average" -> 2
      [] tier = "Above Average" -> 3
      [] tier = "High" -> 4
      [] tier = "Viral" -> 5

\* C18: of two records scored, the one with the greater engagement score
\* never gets the lower tier in the order Low < Below Average < Average <
\* Above Average < High < Viral; a percentile of exactly 90, like the first
\* score whose percentile reaches 90, maps to "Viral".
C18_TierMonotonic ==
    (call.done /\ call.fn = "score") =>
      /\ (call.out.engagement_score.v < call.out2.engagement_score.v)
           => (TierRank(call.out.engagement_tier.v)
                 <= TierRank(call.out2.engagement_tier.v))
      /\ _get_engagement_tier(900000) = "Viral"
      /\ (_calculate_percentile_score(call.out.engagement_score.v \div 100)
            >= 900000) => (call.out.engagement_tier = VStr("Viral"))

\* The scores 3980.07 and 3980.08 on the two sides of percentile 90.
C18_Witness ==
    /\ call.done
    /\ call.fn = "score"
    /\ call.out.engagement_score = VFloat(39800700)
    /\ call.out.engagement_tier = VStr("High")
    /\ call.out2.engagement_score = VFloat(39800800)
    /\ call.out2.engagement_tier = VStr("Viral")

\* C19: time_adjusted_score is 0 when posted_at is absent or not earlier
\* than now, and is never negative.
C19_TimeAdjustedNonNegative ==
    (call.done /\ call.fn = "score") =>
      /\ ( \/ Get(call.data, "posted_at") = Null
           \/ /\ Get(call.data, "posted_at").t = "ts"
              /\ Get(call.data, "posted_at").v >= call.now )
           => (call.out.time_adjusted_score = VFloat(0))
      /\ call.out.time_adjusted_score.v >= 0

----------------------------------------------------------------------------
(* One call of SentimentAnalyzer.analyze_batch: the pool's workers finish
   in any order *)

MaxTexts == 3

\* The texts of a batch: one the service is asked about, one that is blank.
BatchTexts == { VStr("good"), VStr(" ") }

\* The (idx, result) pairs with idx <= that of r stay before r: list.sort
\* is stable.
InsertByIndex(r, sorted) ==
    LET n == Cardinality({ j \in DOMAIN sorted : sorted[j][1] <= r[1] })
    IN  SubSeq(sorted, 1, n) \o <<r>> \o SubSeq(sorted, n + 1, Len(sorted))

\* Fault injection: the pairs left in completion order.
NoSort(results) == results

RECURSIVE SortByIndex(_)
\* results.sort(key=lambda x: x[0])
SortByIndex(results) ==
    IF results = <<>> THEN <<>>
    ELSE InsertByIndex(results[Len(results)],
                       SortByIndex(SubSeq(results, 1, Len(results) - 1)))

\* executor.submit(self.analyze, text) for every text: future_to_text maps
\* each future to the position of its text (counted from 1 here).  outc is
\* what the service does for each call.
BatchStart ==
    /\ call = NoCall
    /\ \E texts \in SeqsUpTo(BatchTexts, MaxTexts) :
       \E outc \in [DOMAIN texts -> {"ok", "raise"}] :
         call' = [ done |-> FALSE, fn |-> "analyze_batch", texts |-> texts,
                   outc |-> outc, pending |-> DOMAIN texts, results |-> <<>>,
                   returned |-> Null ]
    /\ UNCHANGED other_vars
    /\ UNCHANGED engine_vars

\* One turn of the loop over as_completed: whichever future finishes next
\* is taken, and (idx, result) is appended.
WorkerCompletes ==
    /\ ~call.done
    /\ call # NoCall
    /\ call.fn = "analyze_batch"
    /\ \E idx \in call.pending :
         LET answer == StageCall("sentiment", call.texts[idx], call.outc[idx])
             result == IF answer.raised THEN _empty_result("sentiment")
                       ELSE answer.value
         IN  call' = [call EXCEPT !.pending = @ \ {idx},
                                  !.results = Append(@, <<idx, result>>)]
    /\ UNCHANGED other_vars
    /\ UNCHANGED engine_vars

\* All futures collected: sort by index and return the results alone.
BatchReturn ==
    /\ ~call.done
    /\ call # NoCall
    /\ call.fn = "analyze_batch"
    /\ call.pending = {}
    /\ LET sorted == SortByIndex(call.results)
       IN  call' = [call EXCEPT !.done = TRUE,
                                !.returned = [i \in DOMAIN sorted |-> sorted[i][2]]]
    /\ UNCHANGED other_vars
    /\ UNCHANGED engine_vars

NextBatch == BatchStart \/ WorkerCompletes \/ BatchReturn

SpecBatch == InitCall /\ [][NextBatch]_vars

\* The result for one text: the default for a blank text and for a failed
\* call, the answer of the service otherwise.
ResultFor(text, outcome) ==
    IF IsBlank(text.v) \/ outcome = "raise"
    THEN _empty_result("sentiment") ELSE ServiceAnswer("sentiment")

\* C20: whatever the order in which the workers finish, analyze_batch
\* returns a list as long as its input whose i-th element is the result for
\* the i-th text; a call that fails puts the default result at its own
\* position and nowhere else.
C20_BatchKeepsInputOrder ==
    (call.done /\ call.fn = "analyze_batch") =>
      /\ Len(call.returned) = Len(call.texts)
      /\ \A i \in DOMAIN call.texts :
           call.returned[i] = ResultFor(call.texts[i], call.outc[i])

\* Three texts, the last worker finishing first and the first failing.
C20_Witness ==
    /\ call.done
    /\ call.fn = "analyze_batch"
    /\ Len(call.texts) = 3
    /\ call.results[1][1] = 3
    /\ call.results[3][1] = 1
    /\ call.texts[1] = VStr("good")
    /\ call.outc[1] = "raise"
    /\ call.texts[3] = VStr("good")
    /\ call.outc[3] = "ok"
    /\ call.returned[1] = _empty_result("sentiment")
    /\ call.returned[3] = ServiceAnswer("sentiment")

----------------------------------------------------------------------------
(* One call of AthenaWriter._wait_for_query, step by step, beside a remote
   query that changes state on its own *)

MaxClock == 1000

\* The states of a query execution and the StateChangeReason the engine
\* may give with a terminal failure (Null: none given).
RemoteStates == {"QUEUED", "RUNNING", "SUCCEEDED", "FAILED", "CANCELLED"}

EngineReasons == { Null, VStr("SYNTAX_ERROR"), VStr("user request") }

\* Fault injection: only FAILED ends the wait with the engine's failure.
FailedOnly == {"FAILED"}

\* status in ['FAILED', 'CANCELLED']
FailureStates == {"FAILED", "CANCELLED"}

\* time.time() - start_time
Elapsed(c) == c.time - c.start_time

\* Fault injection: the ceiling is never found exceeded.
CeilingNever(c) == FALSE

\* time.time() - start_time > max_wait
CeilingExceeded(c) == Elapsed(c) > max_wait

\* response['QueryExecution']['Status'].get('StateChangeReason', 'Unknown')
ReasonOf(remote) ==
    IF remote.reason = Null THEN VStr("Unknown") ELSE remote.reason

\* start_time = time.time(); the query is queued or already further.
PollStart ==
    /\ call = NoCall
    /\ \E st \in {"QUEUED", "RUNNING"} :
         call' = [ done |-> FALSE, fn |-> "_wait_for_query", at |-> "check",
                   start_time |-> 0, time |-> 0,
                   remote |-> [state |-> st, reason |-> Null],
                   status |-> Null, seen_elapsed |-> 0, stops |-> 0,
                   outcome |-> Null ]
    /\ UNCHANGED other_vars
    /\ UNCHANGED engine_vars

\* Top of the loop: TimeoutError once the ceiling is exceeded.
PollCheck ==
    /\ call # NoCall
    /\ call.fn = "_wait_for_query"
    /\ call.at = "check"
    /\ call' = IF CeilingExceeded(call)
               THEN [call EXCEPT !.done = TRUE, !.at = "end",
                                 !.seen_elapsed = Elapsed(call),
                                 !.outcome = [kind |-> "TimeoutError",
                                              reason |-> Null]]
               ELSE [call EXCEPT !.at = "get",
                                 !.seen_elapsed = Elapsed(call)]
    /\ UNCHANGED other_vars
    /\ UNCHANGED engine_vars

\* get_query_execution and the branches on the state it reports.
PollRead ==
    /\ call # NoCall
    /\ call.fn = "_wait_for_query"
    /\ call.at = "get"
    /\ LET status == call.remote.state
       IN  call' =
             IF status = "SUCCEEDED"
             THEN [call EXCEPT !.done = TRUE, !.at = "end",
                               !.status = VStr(status),
                               !.outcome = [kind |-> "return",
                                            reason |-> Null]]
             ELSE IF status \in FailureStates
             THEN [call EXCEPT !.done = TRUE, !.at = "end",
                               !.status = VStr(status),
                               !.outcome = [kind |-> "Exception",
                                            reason |-> ReasonOf(call.remote)]]
             ELSE [call EXCEPT !.at = "sleep", !.status = VStr(status)]
    /\ UNCHANGED other_vars
    /\ UNCHANGED engine_vars

\* time.sleep(2): the clock advances by the two seconds, or by more when
\* the iteration stalls.
PollSleep ==
    /\ call # NoCall
    /\ call.fn = "_wait_for_query"
    /\ call.at = "sleep"
    /\ call.time < MaxClock
    /\ \E d \in {sleep_secs, sleep_secs + LongStall} :
         call' = [call EXCEPT !.at = "check", !.time = @ + d]
    /\ UNCHANGED other_vars
    /\ UNCHANGED engine_vars

\* The engine moves the query on: QUEUED to RUNNING, RUNNING to a terminal
\* state.  Nothing obliges it to.
RemoteMoves ==
    /\ call # NoCall
    /\ call.fn = "_wait_for_query"
    /\ ~call.done
    /\ \/ /\ call.remote.state = "QUEUED"
          /\ call' = [call EXCEPT !.remote.state = "RUNNING"]
       \/ /\ call.remote.state = "RUNNING"
          /\ \/ call' = [call EXCEPT !.remote.state = "SUCCEEDED"]
             \/ \E st \in {"FAILED", "CANCELLED"} : \E r \in EngineReasons :
                  call' = [call EXCEPT !.remote = [state |-> st, reason |-> r]]
    /\ UNCHANGED other_vars
    /\ UNCHANGED engine_vars

NextWait == PollStart \/ PollCheck \/ PollRead \/ PollSleep \/ RemoteMoves

SpecWait == InitCall /\ [][NextWait]_vars

\* The thread that runs the wait is scheduled: each of its steps is taken
\* when it stays possible.  The engine is under no such obligation.
SpecWaitLive ==
    /\ SpecWait
    /\ WF_vars(PollCheck)
    /\ WF_vars(PollRead)
    /\ WF_vars(PollSleep)

WaitEnded == call # NoCall /\ call.fn = "_wait_for_query" /\ call.done

\* C21: the wait returns only after reading SUCCEEDED; after reading FAILED
\* or CANCELLED it fails with the engine's reason (it never sleeps on);
\* when its check finds the ceiling exceeded it fails with TimeoutError,
\* another condition than the engine failure, whatever the state of the
\* query; the status is read only within the ceiling; and it never stops
\* the remote query.
C21_WaitOutcomes ==
    (call # NoCall /\ call.fn = "_wait_for_query") =>
      /\ call.stops = 0
      /\ (call.at = "sleep") => (call.status.v \in {"QUEUED", "RUNNING"})
      /\ (call.at \in {"get", "sleep"}) => (call.seen_elapsed <= max_wait)
      /\ call.done =>
           /\ call.outcome.kind \in {"return", "Exception", "TimeoutError"}
           /\ (call.outcome.kind = "return")
                => (call.status = VStr("SUCCEEDED"))
           /\ (call.outcome.kind = "Exception")
                => ( /\ call.status.v \in {"FAILED", "CANCELLED"}
                     /\ call.remote.state = call.status.v
                     /\ call.outcome.reason =
                          IF call.remote.reason = Null THEN VStr("Unknown")
                          ELSE call.remote.reason )
           /\ (call.outcome.kind = "TimeoutError")
                => (call.seen_elapsed > max_wait /\ call.outcome.reason = Null)
           /\ (call.seen_elapsed > max_wait)
                => (call.outcome.kind = "TimeoutError")

\* The wait gave up on a query that is still running, and left it running.
C21_Witness ==
    /\ WaitEnded
    /\ call.outcome.kind = "TimeoutError"
    /\ call.remote.state = "RUNNING"
    /\ call.stops = 0

\* C30: every wait that has begun ends, by returning, by the engine's
\* failure or by the timeout, also when the query never leaves QUEUED or
\* RUNNING.
C30_WaitTerminates ==
    (call # NoCall /\ call.fn = "_wait_for_query")
      ~> ( /\ WaitEnded
           /\ call.outcome.kind \in {"return", "Exception", "TimeoutError"} )

\* A wait ended by the timeout after polling every two seconds, the query
\* still queued.
C30_Witness ==
    /\ WaitEnded
    /\ call.outcome.kind = "TimeoutError"
    /\ call.remote.state = "QUEUED"
    /\ call.seen_elapsed = max_wait + sleep_secs

----------------------------------------------------------------------------
(* One call of _enrich_record in which the service answers one stage with
   any response, well-shaped or not *)

ShapeCall ==
    /\ ~call.done
    /\ \E record \in EnrichInputs : \E stage \in ZaiStages :
       \E o \in {"ok", "raise"} \cup MalformedOutcomes :
       \E t1 \in CallTimes : \E d2 \in 0..MaxTick : \E d3 \in 0..MaxTick :
         LET outc == [s \in ZaiStages |-> IF s = stage THEN o ELSE "ok"]
         IN  call' = [ done |-> TRUE, fn |-> "_enrich_record",
                       record |-> record, stage |-> stage, outc |-> outc,
                       t1 |-> t1, t2 |-> t1 + d2, t3 |-> t1 + d2 + d3,
                       out |-> _enrich_record(record, modules_enabled, outc,
                                              t1, t1 + d2, t1 + d2 + d3) ]
    /\ UNCHANGED other_vars
    /\ UNCHANGED engine_vars

NextShape == ShapeCall

SpecShape == InitCall /\ [][NextShape]_vars

ShapeDone == call.done /\ call.fn = "_enrich_record"

\* The keys of an enriched record whose stages all gave declared fields.
DeclaredKeys ==
    ((DOMAIN call.record) \ {"text", "author", "retweets", "replies"})
      \cup {"source_text", "source_author", "shares", "comments"}
      \cup MetaFields \cup AllStageFields

\* C22: the fields a stage merges into the record are exactly those its
\* schema declares: every declared field of every stage is in the record,
\* no undeclared key is, and a response of another shape is replaced by the
\* default result of the stage.
C22_StageResultShaped ==
    ShapeDone =>
      /\ DOMAIN call.out = DeclaredKeys
      /\ \A s \in ZaiStages :
           (call.outc[s] \in MalformedOutcomes) =>
             \A f \in StageFields(s) : call.out[f] = _empty_result(s)[f]

\* C23: the enriched record has source_text, source_author, shares and
\* comments equal to text, author, retweets and replies of the canonical
\* record, has none of those four keys, and its engagement fields are
\* those score gives for the canonical record.
C23_RenamedAtEmission ==
    ShapeDone =>
      /\ call.out.source_text = call.record.text
      /\ call.out.source_author = call.record.author
      /\ call.out.shares = call.record.retweets
      /\ call.out.comments = call.record.replies
      /\ {"text", "author", "retweets", "replies"} \cap DOMAIN call.out = {}
      /\ \A f \in StageFields("engagement") :
           call.out[f] = score(call.record, call.t3)[f]

\* C29: the enriched record has the source_table and source_id of its
\* canonical record and the enriched_at, enrichment_version and date the
\* orchestrator stamped, whatever the stages returned.
C29_MergeKeepsIdentity ==
    ShapeDone =>
      /\ call.out.source_table = call.record.source_table
      /\ call.out.source_id = call.record.source_id
      /\ call.out.enriched_at = VTs(call.t1)
      /\ call.out.enrichment_version = VStr("1.0.0")
      /\ call.out.date = VDate(DateOf(call.t2))

----------------------------------------------------------------------------
(* Further properties of score, of run and of _enrich_record *)

\* C26: in every result of score, engagement_tier is the tier the
\* threshold table assigns to the percentile_score of that result (the
\* value rounded to 2 places).
C26_TierOfReportedPercentile ==
    (call.done /\ call.fn = "score") =>
      call.out.engagement_tier.v
        = _get_engagement_tier(call.out.percentile_score.v)

RECURSIVE HandedOver(_, _)
\* The records of run r handed, by the first n providers, to a
\* merge_enriched_records_batch that returned.
HandedOver(r, n) ==
    IF n = 0 THEN 0
    ELSE (IF hist[r].p[ProviderOrder[n]].write = "ok"
          THEN Len(hist[r].p[ProviderOrder[n]].ids) ELSE 0)
           + HandedOver(r, n - 1)

\* Of those, the records whose merge did not raise.
IssuedWithoutError(r) ==
    HandedOver(r, Len(ProviderOrder))
      - Cardinality({ w \in writer_failed : w.run = r })

\* C27: the total reported at the end of a run is the number of records,
\* over all providers, whose merge was issued without error.
C27_TotalCountsIssuedMerges ==
    (run >= 1 /\ pc = "idle") => (total_enriched = IssuedWithoutError(run))

\* C28: in every record _enrich_record returns, date is the calendar date
\* of the record's enriched_at.
C28_DateOfEnrichedAt ==
    ecall.done => (ecall.out.date = VDate(DateOf(ecall.out.enriched_at.v)))

----------------------------------------------------------------------------
(* One call of AthenaWriter._format_single_value.  A str is given as the
   sequence of its characters, and the SQL text returned as a sequence of
   pieces, so that quoting is computed character by character. *)

MaxItems == 2

\* A datetime with its microseconds.
VDateTime(h, us) == [t |-> "ts", v |-> h, us |-> us]

\* isinstance(value, cls): datetime is a subclass of date, bool of int.
IsInstance(value, cls) ==
    CASE cls = "str" -> value.t = "str"
      [] cls = "datetime" -> value.t = "ts"
      [] cls = "date" -> value.t \in {"date", "ts"}
      [] cls = "bool" -> value.t = "bool"
      [] cls = "int" -> value.t \in {"int", "bool"}
      [] cls = "list" -> value.t = "list"

\* Fault injection: the characters left as they are.
NoEscape(cs) == cs

RECURSIVE EscapeQuotes(_)
\* value.replace("'", "''")
EscapeQuotes(cs) ==
    IF cs = <<>> THEN <<>>
    ELSE (IF Head(cs) = "'" THEN <<"'", "'">> ELSE <<Head(cs)>>)
           \o EscapeQuotes(Tail(cs))

\* strftime('%Y-%m-%d') and strftime('%H:%M:%S') of a time in hours
StrfDate(day) == "day" \o ToString(day)

StrfClock(h) == ToString(h % HoursPerDay) \o ":00:00"

RECURSIVE JoinItems(_)
\* ', '.join(formatted_items)
JoinItems(items) ==
    IF items = <<>> THEN <<>>
    ELSE IF Len(items) = 1 THEN items[1]
    ELSE items[1] \o <<", ">> \o JoinItems(Tail(items))

RECURSIVE _format_single_value(_)
\* The isinstance chain in the order of the code; the branch for dict is
\* left out (no value of the model is a dict), the last one is str(value)
\* of a number.
_format_single_value(value) ==
    IF value.t = "null" THEN <<"NULL">>
    ELSE IF IsInstance(value, "str")
    THEN <<"'">> \o EscapeQuotes(value.v) \o <<"'">>
    ELSE IF IsInstance(value, "datetime")
    THEN <<"TIMESTAMP '", StrfDate(DateOf(value.v)), " ", StrfClock(value.v),
           "'">>
    ELSE IF IsInstance(value, "date")
    THEN <<"DATE '", StrfDate(value.v), "'">>
    ELSE IF IsInstance(value, "bool")
    THEN IF value.v THEN <<"true">> ELSE <<"false">>
    ELSE IF IsInstance(value, "list")
    THEN <<"ARRAY[">>
           \o JoinItems([i \in DOMAIN value.v |->
                           _format_single_value(value.v[i])])
           \o <<"]">>
    ELSE <<ToString(value.v)>>

\* The values formatted: None, strings with and without quotes, datetimes
\* with and without microseconds, dates, booleans, integers.
FormatScalars ==
    { Null, VStr(<<>>), VStr(<<"a">>), VStr(<<"'">>), VStr(<<"a", "'", "b">>),
      VStr(<<"'", "'">>),
      VDateTime(1, 0), VDateTime(1, 5), VDateTime(HoursPerDay + 1, 0),
      VDate(0), VDate(1), VBool(TRUE), VBool(FALSE),
      VInt(0), VInt(1), VInt(-1) }

\* and lists of them, one list nested.
FormatInputs ==
    FormatScalars
      \cup { VList(q) : q \in SeqsUpTo(FormatScalars, MaxItems) }
      \cup { VList(<<VList(<<VStr(<<"'">>), VBool(TRUE)>>), VInt(1)>>) }

FormatCall ==
    /\ ~call.done
    /\ \E value \in FormatInputs :
         call' = [ done |-> TRUE, fn |-> "_format_single_value",
                   value |-> value, out |-> _format_single_value(value) ]
    /\ UNCHANGED other_vars
    /\ UNCHANGED engine_vars

NextFormat == FormatCall

SpecFormat == InitCall /\ [][NextFormat]_vars

RECURSIVE SqlUnquote(_)
\* The characters a SQL reader takes from the body of a quoted literal: ''
\* stands for one quote; a quote alone would end the literal ("<end>").
SqlUnquote(cs) ==
    IF cs = <<>> THEN <<>>
    ELSE IF Head(cs) # "'" THEN <<Head(cs)>> \o SqlUnquote(Tail(cs))
    ELSE IF Len(cs) >= 2 /\ cs[2] = "'"
         THEN <<"'">> \o SqlUnquote(Tail(Tail(cs)))
         ELSE <<"<end>">>

\* C24: _format_single_value renders None as NULL; a string as a quoted
\* literal that reads back as the string, every quote doubled; a datetime
\* as a TIMESTAMP literal without its microseconds, never as a DATE
\* literal; a date as a DATE literal; a boolean as bare true or false; a
\* list as ARRAY[...] of its elements rendered by the same rules, in order,
\* separated by ', '.
C24_OneRulePerKind ==
    (call.done /\ call.fn = "_format_single_value") =>
      LET value == call.value
          out == call.out
          body == SubSeq(out, 2, Len(out) - 1)
      IN  /\ (value.t = "null") => (out = <<"NULL">>)
          /\ (value.t = "str") =>
               ( /\ Len(out) >= 2
                 /\ out[1] = "'"
                 /\ out[Len(out)] = "'"
                 /\ SqlUnquote(body) = value.v
                 /\ Len(body) = Len(value.v)
                      + Cardinality({ i \in DOMAIN value.v : value.v[i] = "'" }) )
          /\ (value.t = "ts") =>
               ( /\ out[1] = "TIMESTAMP '"
                 /\ out = _format_single_value(VDateTime(value.v, 0))
                 /\ out = <<"TIMESTAMP '", StrfDate(value.v \div HoursPerDay),
                            " ", StrfClock(value.v), "'">> )
          /\ (value.t = "date") =>
               (out = <<"DATE '", StrfDate(value.v), "'">>)
          /\ (value.t = "bool") =>
               (out = IF value.v THEN <<"true">> ELSE <<"false">>)
          /\ (value.t = "list") =>
               ( /\ out[1] = "ARRAY["
                 /\ out[Len(out)] = "]"
                 /\ body = JoinItems([i \in DOMAIN value.v |->
                                        _format_single_value(value.v[i])]) )

\* A list of a string with a quote and a datetime with microseconds.
C24_Witness ==
    /\ call.done
    /\ call.fn = "_format_single_value"
    /\ call.value = VList(<<VStr(<<"a", "'", "b">>), VDateTime(1, 5)>>)
    /\ call.out = <<"ARRAY[", "'", "a", "'", "'", "b", "'", ", ",
                    "TIMESTAMP '", "day0", " ", "1:00:00", "'", "]">>

----------------------------------------------------------------------------
(* The enrichment loop of run() over the records of one provider, one
   call of _enrich_record per step *)

\* What the service does during one call of _enrich_record: it answers
\* every stage, or raises for one of them.
CallOutcomes ==
    { [s \in ZaiStages |-> "ok"] }
      \cup { [s \in ZaiStages |-> IF s = bad THEN "raise" ELSE "ok"] :
             bad \in ZaiStages }

\* Fault injection: a stage that failed is switched off for the records
\* that follow.
DisableFailed(enabled, outc) ==
    [ s \in StageSet |->
        enabled[s] /\ (s \in ZaiStages => outc[s] # "raise") ]

\* self.modules_enabled after a call of _enrich_record: the call assigns
\* no attribute of the pipeline or of its modules.
AfterEnrich(enabled, outc) == enabled

loop_vars == <<clock, run, pc, env, pidx, enriched_records, total_enriched,
               elapsed, polls, exit_status, faults, hist, enrich_count, lost,
               writer_failed, ecall, wcall>>

\* normalized = [normalize_record(r, config) for r in raw_records]: at most
\* limit records; enriched_records = [].
LoopStart ==
    /\ call = NoCall
    /\ \E normalized \in SeqsUpTo(EnrichInputs, MaxLimit) :
       \E outcs \in [DOMAIN normalized -> CallOutcomes] :
         call' = [ done |-> normalized = <<>>, fn |-> "enrich_loop",
                   normalized |-> normalized, outcs |-> outcs,
                   enriched_records |-> <<>> ]
    /\ UNCHANGED modules_enabled
    /\ UNCHANGED loop_vars
    /\ UNCHANGED engine_vars

\* One turn of the loop: enriched = self._enrich_record(record);
\* enriched_records.append(enriched).
LoopStep ==
    /\ call # NoCall
    /\ call.fn = "enrich_loop"
    /\ ~call.done
    /\ LET i == Len(call.enriched_records) + 1
           enriched == _enrich_record(call.normalized[i], modules_enabled,
                                      call.outcs[i], 1, 1, 1)
       IN  /\ call' = [call EXCEPT
                  !.enriched_records = Append(@, enriched),
                  !.done = (i = Len(call.normalized))]
           /\ modules_enabled' = AfterEnrich(modules_enabled, call.outcs[i])
    /\ UNCHANGED loop_vars
    /\ UNCHANGED engine_vars

NextLoop == LoopStart \/ LoopStep

SpecLoop == InitCall /\ [][NextLoop]_vars

\* C25: every record enriched in the loop is what _enrich_record gives for
\* that record and the service's answers to its own calls on the pipeline
\* as constructed: neither the records enriched before it nor the failures
\* of their stages change any of its fields.
C25_RecordsIndependent ==
    (call # NoCall /\ call.fn = "enrich_loop") =>
      \A k \in DOMAIN call.enriched_records :
        call.enriched_records[k]
          = _enrich_record(call.normalized[k], InitModules(env),
                           call.outcs[k], 1, 1, 1)

\* Two records enriched, the sentiment call failing for the first one only.
C25_Witness ==
    /\ call # NoCall
    /\ call.fn = "enrich_loop"
    /\ call.done
    /\ Len(call.enriched_records) = 2
    /\ call.outcs[1]["sentiment"] = "raise"
    /\ call.outcs[2]["sentiment"] = "ok"
    /\ ~IsBlank(call.normalized[1].text.v)
    /\ ~IsBlank(call.normalized[2].text.v)
    /\ call.enriched_records[1].sentiment_label = VStr("neutral")
    /\ call.enriched_records[2].sentiment_label = VStr("positive")

=============================================================================
